---- MODULE Spec2Model ----
(***************************************************************************)
(* A model of hypod: the tag registries filled by subclass declarations,   *)
(* the field descriptors with variant resolution and merge-update, the     *)
(* key-path parser of command-line tokens, and make().                     *)
(***************************************************************************)
EXTENDS Integers, Sequences, FiniteSets, TLC

VARIABLES
    classes,      \* declared HPC classes, by id: [parent, own, schema]
    subclasses,   \* subclasses[c]: the dict cls._subclasses created for c
    fields,       \* union field types whose descriptor was installed
    obj,          \* the instance the caller holds
    arg,          \* the mapping the caller holds and passes in
    argv,         \* the token list given to parse_argv
    pc,           \* where parse_argv is: "idle", "check", "parse", "done", "error"
    idx,          \* the token the loop of parse_argv is at
    argv_dict,    \* the mapping parse_argv has built so far
    decls,        \* classes of the module, for make(): [qualname, hypod, base]
    made,         \* what the last make() returned
    last          \* the last operation and how it ended

regVars == <<classes, subclasses, fields>>

fldVars == <<obj, arg>>

argvVars == <<argv, pc, idx, argv_dict>>

makeVars == <<decls, made>>

vars == <<classes, subclasses, fields, obj, arg, argv, pc, idx, argv_dict, decls,
          made, last>>

(***************************************************************************)
(* Bounds                                                                  *)
(***************************************************************************)
MaxDecl == 3      \* class declarations in one run
MaxFields == 1    \* union fields installed in one run
MaxArgs == 2      \* tokens in the list given to parse_argv
MaxClasses == 3   \* class statements of the module make() is called in

Tags == {"a", "b"}
NoTag == "<None>"                 \* tag=None, the default of __init_subclass__
Names == {"a", "B"}               \* __qualname__ of a declared class
NoErr == "ok"

(***************************************************************************)
(* Dicts are sequences of <<key, value>> pairs in insertion order.         *)
(***************************************************************************)
Keys(d) == {d[i][1] : i \in DOMAIN d}

Has(d, k) == k \in Keys(d)

Get(d, k) == d[CHOOSE i \in DOMAIN d : d[i][1] = k][2]

Put(d, k, v) ==
    IF Has(d, k)
    THEN [i \in DOMAIN d |-> IF d[i][1] = k THEN <<k, v>> ELSE d[i]]
    ELSE Append(d, <<k, v>>)

RECURSIVE Update(_, _)
Update(d, e) == IF e = <<>> THEN d ELSE Update(Put(d, Head(e)[1], Head(e)[2]), Tail(e))

(***************************************************************************)
(* Class hierarchy.  A class decorated with hypod owns a fresh _subclasses *)
(* dict and its own __init_subclass__; an undecorated subclass inherits    *)
(* both attributes from the nearest decorated ancestor.                    *)
(***************************************************************************)
RECURSIVE Owner(_, _)
Owner(cs, c) == IF c = 0 THEN 0 ELSE IF cs[c].own THEN c ELSE Owner(cs, cs[c].parent)

SubclassesOf(cs, regs, c) == regs[Owner(cs, c)]

RECURSIVE Ancestors(_, _)
Ancestors(cs, c) == IF c = 0 THEN {} ELSE {c} \cup Ancestors(cs, cs[c].parent)

\* the tag a declaration registers under
TagOf(tag, qualname) == IF tag = NoTag THEN qualname ELSE tag

\* as InitSubclass, but cls registers the subclass before it calls super()
RECURSIVE InitSubclassLeafFirst(_, _, _, _, _, _)
InitSubclassLeafFirst(cs, cls, subcls, tag, qualname, st) ==
    LET t == TagOf(tag, qualname)
        sup == Owner(cs, cs[cls].parent)
    IN  IF Has(st.regs[cls], t)
        THEN [st EXCEPT !.err = "DuplicateTagError"]
        ELSE LET mine == [st EXCEPT !.regs[cls] = Put(@, t, subcls)]
             IN  IF sup = 0 THEN mine
                 ELSE InitSubclassLeafFirst(cs, sup, subcls, tag, qualname, mine)

\* __init_subclass__ as installed on cls, run for the new class subcls:
\* st = [regs, err]
RECURSIVE InitSubclass(_, _, _, _, _, _)
InitSubclass(cs, cls, subcls, tag, qualname, st) ==
    LET sup == Owner(cs, cs[cls].parent)      \* super(cls, subcls)
        up == IF sup = 0 THEN st              \* object: TypeError, passed
              ELSE InitSubclass(cs, sup, subcls, tag, qualname, st)
        t == TagOf(tag, qualname)
    IN  IF up.err # NoErr THEN up             \* the ValueError propagates
        ELSE IF Has(up.regs[cls], t)
        THEN [up EXCEPT !.err = "DuplicateTagError"]
        ELSE [up EXCEPT !.regs[cls] = Put(@, t, subcls)]

(***************************************************************************)
(* Values: ints, strs, MISSING, mappings (ent: key -> value) and instances *)
(* (cls, slots: field -> value).  The text of an int or str is kept as a   *)
(* string, so that eval() of a str is a real conversion.                   *)
(***************************************************************************)
MISSING == [k |-> "MISSING"]

IntV(s) == [k |-> "int", v |-> s]

StrV(s) == [k |-> "str", v |-> s]

Map(e) == [k |-> "map", ent |-> e]

Obj(c, s) == [k |-> "obj", cls |-> c, slots |-> s]

None == [k |-> "none"]

(***************************************************************************)
(* Annotated types.  kind is "hpc" (members = <<c>>), "union" (the HPC     *)
(* members in order, and whether dict, a parameterised Dict[...] or str is *)
(* among the other alternatives), or a plain "int", "str", "any".          *)
(***************************************************************************)
Type(kind, members, dict, mapping, str) ==
    [kind |-> kind, members |-> members, dict |-> dict, mapping |-> mapping,
     str |-> str]

Plain(kind) == Type(kind, <<>>, FALSE, FALSE, FALSE)

Hpc(c) == Type("hpc", <<c>>, FALSE, FALSE, FALSE)

is_hypod(ty) == ty.kind = "hpc"

is_union_of_hypod(ty) == ty.kind = "union" /\ ty.members # <<>>

is_union_of_str(ty) == ty.kind = "union" /\ ty.str

(***************************************************************************)
(* TypeCheckedDescriptor.__init__: the checks made when hypod() installs   *)
(* the descriptor of a field.                                              *)
(***************************************************************************)
RECURSIVE DupKeys(_, _, _, _)
DupKeys(cs, regs, members, keys) ==
    IF members = <<>> THEN FALSE
    ELSE LET new == Keys(SubclassesOf(cs, regs, Head(members)))
         IN  IF keys \cap new # {} THEN TRUE
             ELSE DupKeys(cs, regs, Tail(members), keys \cup new)

DescriptorInit(cs, regs, ty) ==
    IF ~is_union_of_hypod(ty) THEN NoErr
    ELSE IF DupKeys(cs, regs, ty.members, {}) THEN "DuplicateTagAcrossUnionError"
    ELSE IF ty.dict THEN "UnionWithDictError"
    ELSE NoErr

\* _all_subclasses of infer_new_hypod_cls: later members override earlier
RECURSIVE AllSubclasses(_, _, _)
AllSubclasses(cs, regs, members) ==
    IF members = <<>> THEN <<>>
    ELSE Update(AllSubclasses(cs, regs, SubSeq(members, 1, Len(members) - 1)),
                SubclassesOf(cs, regs, members[Len(members)]))

(***************************************************************************)
(* Declarations                                                            *)
(***************************************************************************)
RegInit ==
    /\ classes = <<>>
    /\ subclasses = <<>>
    /\ fields = {}
    /\ obj = None
    /\ arg = None
    /\ argv = <<>>
    /\ pc = "idle"
    /\ idx = 0
    /\ argv_dict = Map(<<>>)
    /\ decls = <<>>
    /\ made = None
    /\ last = [op |-> "init", err |-> NoErr, tag |-> NoTag, base |-> 0]

\* @hypod class X: a root HPC
DeclareRoot ==
    /\ Len(classes) < MaxDecl
    /\ classes' = Append(classes, [parent |-> 0, own |-> TRUE, schema |-> <<>>])
    /\ subclasses' = Append(subclasses, <<>>)
    /\ last' = [op |-> "root", err |-> NoErr, tag |-> NoTag, base |-> 0]
    /\ UNCHANGED <<fields, fldVars>>
    /\ UNCHANGED <<argvVars, makeVars>>

\* class X(base, tag=tag), decorated with hypod (own) or not
DeclareSubclass(base, tag, qualname, own) ==
    /\ Len(classes) < MaxDecl
    /\ LET id == Len(classes) + 1
           r == InitSubclass(classes, Owner(classes, base), id, tag, qualname,
                             [regs |-> subclasses, err |-> NoErr])
       IN  /\ last' = [op |-> "subclass", err |-> r.err,
                       tag |-> TagOf(tag, qualname), base |-> base]
           /\ IF r.err # NoErr
              THEN /\ subclasses' = r.regs
                   /\ UNCHANGED classes
              ELSE /\ classes' = Append(classes, [parent |-> base, own |-> own,
                                                 schema |-> classes[base].schema])
                   /\ subclasses' = Append(r.regs, <<>>)
    /\ UNCHANGED <<fields, fldVars>>
    /\ UNCHANGED <<argvVars, makeVars>>

UnionTypes ==
    {Type("union", <<c, d>>, b, FALSE, FALSE) :
        c \in DOMAIN classes, d \in DOMAIN classes, b \in BOOLEAN}

\* hypod() installing the descriptor of a field annotated with a union
InstallField(ty) ==
    /\ Cardinality(fields) < MaxFields
    /\ ty.members[1] # ty.members[2]
    /\ LET e == DescriptorInit(classes, subclasses, ty)
       IN  /\ last' = [op |-> "install", err |-> e, tag |-> NoTag, base |-> 0]
           /\ fields' = IF e = NoErr THEN fields \cup {ty} ELSE fields
    /\ UNCHANGED <<classes, subclasses, fldVars>>
    /\ UNCHANGED <<argvVars, makeVars>>

RegNext ==
    \/ DeclareRoot
    \/ \E base \in DOMAIN classes, tag \in Tags \cup {NoTag}, qualname \in Names,
          own \in BOOLEAN : DeclareSubclass(base, tag, qualname, own)
    \/ \E ty \in UnionTypes : InstallField(ty)

SpecReg == RegInit /\ [][RegNext]_vars

(***************************************************************************)
(* Registry claims                                                         *)
(***************************************************************************)
\* the base of the last declaration derives from an HPC whose registry
\* already held the declared tag
TagTaken(cs, regs, base, tag) ==
    \E c \in Ancestors(cs, base) : Has(SubclassesOf(cs, regs, c), tag)

UniqueTags ==
    \A c \in DOMAIN subclasses : \A i, j \in DOMAIN subclasses[c] :
        subclasses[c][i][1] = subclasses[c][j][1] => i = j

\* C1: within every registry tags are unique and an entry, once made, is
\* never rebound; a subclass declaration whose tag (explicit, or the
\* declaration name) is in the registry of an HPC it derives from fails with
\* DuplicateTagError; a failed declaration leaves every registry as it was.
C1_RegistryAppendOnly ==
    /\ []UniqueTags
    /\ [][/\ \A c \in DOMAIN subclasses : \A t \in Keys(subclasses[c]) :
                /\ Has(subclasses'[c], t)
                /\ Get(subclasses'[c], t) = Get(subclasses[c], t)
          /\ (last'.op = "subclass"
                /\ TagTaken(classes, subclasses, last'.base, last'.tag))
                => last'.err = "DuplicateTagError"
          /\ last'.err = "DuplicateTagError"
                => subclasses' = subclasses /\ classes' = classes]_vars

\* a declaration failed on a tag that the registry of its direct base does
\* not hold and the registry of a farther ancestor does
C1_Witness ==
    /\ last.op = "subclass"
    /\ last.err = "DuplicateTagError"
    /\ ~Has(SubclassesOf(classes, subclasses, last.base), last.tag)
    /\ TagTaken(classes, subclasses, last.base, last.tag)

\* C6: the registries of the HPC members of every installed union field are
\* pairwise disjoint, whatever is declared after the installation, so a tag
\* is found in the registry of at most one member.
C6_UnionTagsDisjoint ==
    \A ty \in fields : ~DupKeys(classes, subclasses, ty.members, {})

(***************************************************************************)
(* The field engine.  Every operator returns [err, val, arg]: the error    *)
(* raised (NoErr: none), the value produced, and the value the caller      *)
(* passed in as the caller sees it afterwards (a dict is passed by         *)
(* reference, so a pop on it shows).                                       *)
(***************************************************************************)
Ok(v, a) == [err |-> NoErr, val |-> v, arg |-> a]

Raise(e, a) == [err |-> e, val |-> MISSING, arg |-> a]

\* eval() of the text of a str: a number, a quoted str, or a bare name
Eval(s) ==
    IF s.v \in {"0", "1"} THEN Ok(IntV(s.v), s)
    ELSE IF s.v = "'1'" THEN Ok(StrV("1"), s)
    ELSE Raise("NameError", s)

\* type(val): the class of an instance, 0 for a value of a builtin type
TypeOf(val) == IF val.k = "obj" THEN val.cls ELSE 0

Schema(c) == classes[c].schema

FieldNames(c) == {Schema(c)[i].name : i \in DOMAIN Schema(c)}

Remove(d, key) == [x \in DOMAIN d \ {key} |-> d[x]]

\* typeguard's check_type(val, ty)
CheckType(val, ty) ==
    CASE ty.kind = "any" -> TRUE
      [] ty.kind = "int" -> val.k = "int"
      [] ty.kind = "str" -> val.k = "str"
      [] OTHER -> \/ /\ val.k = "obj"
                     /\ \E i \in DOMAIN ty.members :
                            ty.members[i] \in Ancestors(classes, val.cls)
                  \/ val.k = "map" /\ (ty.dict \/ ty.mapping)
                  \/ val.k = "str" /\ ty.str

\* as InferNewHypodCls, but an untagged mapping with no current value takes
\* the first member of a union
InferNewHypodClsFirstMember(ty, curr_val, d) ==
    IF "_tag" \in DOMAIN d
    THEN LET reg == IF is_hypod(ty)
                    THEN SubclassesOf(classes, subclasses, ty.members[1])
                    ELSE AllSubclasses(classes, subclasses, ty.members)
         IN  IF Has(reg, d["_tag"].v)
             THEN [err |-> NoErr, cls |-> Get(reg, d["_tag"].v), d |-> Remove(d, "_tag")]
             ELSE [err |-> "UnknownTagError", cls |-> 0, d |-> Remove(d, "_tag")]
    ELSE IF curr_val # MISSING THEN [err |-> NoErr, cls |-> TypeOf(curr_val), d |-> d]
    ELSE [err |-> NoErr, cls |-> ty.members[1], d |-> d]

\* infer_new_hypod_cls: [err, cls, d], d the dict after the pop
InferNewHypodCls(ty, curr_val, d) ==
    IF is_hypod(ty)
    THEN IF "_tag" \in DOMAIN d
         THEN LET reg == SubclassesOf(classes, subclasses, ty.members[1])
              IN  IF Has(reg, d["_tag"].v)
                  THEN [err |-> NoErr, cls |-> Get(reg, d["_tag"].v),
                        d |-> Remove(d, "_tag")]
                  ELSE [err |-> "UnknownTagError", cls |-> 0, d |-> Remove(d, "_tag")]
         ELSE IF curr_val # MISSING
         THEN [err |-> NoErr, cls |-> TypeOf(curr_val), d |-> d]
         ELSE [err |-> NoErr, cls |-> ty.members[1], d |-> d]
    ELSE IF is_union_of_hypod(ty)
    THEN IF "_tag" \in DOMAIN d
         THEN LET reg == AllSubclasses(classes, subclasses, ty.members)
              IN  IF Has(reg, d["_tag"].v)
                  THEN [err |-> NoErr, cls |-> Get(reg, d["_tag"].v),
                        d |-> Remove(d, "_tag")]
                  ELSE [err |-> "UnknownTagError", cls |-> 0, d |-> Remove(d, "_tag")]
         ELSE IF curr_val # MISSING
         THEN [err |-> NoErr, cls |-> TypeOf(curr_val), d |-> d]
         ELSE [err |-> "AmbiguousUnionError", cls |-> 0, d |-> d]
    ELSE [err |-> "NotHypodFieldError", cls |-> 0, d |-> d]

RECURSIVE InferNewHypodVal(_, _, _, _)
RECURSIVE Replace(_, _)
RECURSIVE ReplaceFields(_, _, _, _)
RECURSIVE Construct(_, _)
RECURSIVE InitFields(_, _, _, _)
RECURSIVE SetField(_, _, _)

\* the one element of a singleton set
Only(S) == CHOOSE x \in S : TRUE

\* infer_new_hypod_val
InferNewHypodVal(ty, curr_val, new_val, update_if_hypod) ==
    Only({IF c.err # NoErr
          THEN Raise(c.err, IF new_val.k = "str" THEN new_val ELSE Map(c.d))
          ELSE Only({[r EXCEPT !.arg = IF new_val.k = "str" THEN new_val ELSE Map(r.arg)] :
                     r \in {IF update_if_hypod /\ curr_val # MISSING
                                  /\ c.cls = TypeOf(curr_val)
                            THEN Replace(curr_val, c.d)
                            ELSE Construct(c.cls, c.d)}}) :
          c \in {InferNewHypodCls(ty, curr_val,
                    IF new_val.k = "str" THEN ("_tag" :> new_val) ELSE new_val.ent)}})

\* the loop of replace() over fields(obj): changes as folded so far, and the
\* caller's view of the values it passed
ReplaceFields(o, fs, changes, seen) ==
    IF fs = <<>> THEN Ok(changes, seen)
    ELSE LET f == Head(fs)
         IN  IF f.name \in DOMAIN changes
             THEN IF (is_hypod(f.ty) \/ is_union_of_hypod(f.ty))
                        /\ changes[f.name].k \in {"map", "str"}
                  THEN Only({IF r.err # NoErr
                             THEN Raise(r.err, [seen EXCEPT ![f.name] = r.arg])
                             ELSE ReplaceFields(o, Tail(fs),
                                      [changes EXCEPT ![f.name] = r.val],
                                      [seen EXCEPT ![f.name] = r.arg]) :
                             r \in {InferNewHypodVal(f.ty, o.slots[f.name],
                                                     changes[f.name], TRUE)}})
                  ELSE ReplaceFields(o, Tail(fs), changes, seen)
             ELSE ReplaceFields(o, Tail(fs),
                      (f.name :> o.slots[f.name]) @@ changes, seen)

\* replace(obj, **changes)
Replace(o, changes) ==
    IF o.k # "obj" THEN Raise("TypeError", changes)
    ELSE Only({IF r.err # NoErr THEN r
               ELSE [Construct(o.cls, r.val) EXCEPT !.arg = r.arg] :
               r \in {ReplaceFields(o, Schema(o.cls), changes, changes)}})

\* the generated __init__: self.<name> = <argument or default>, in field order
InitFields(fs, kwargs, slots, seen) ==
    IF fs = <<>> THEN Ok(slots, seen)
    ELSE LET f == Head(fs)
             given == f.name \in DOMAIN kwargs
         IN  Only({IF r.err # NoErr
                   THEN Raise(r.err, IF given THEN [seen EXCEPT ![f.name] = r.arg]
                                     ELSE seen)
                   ELSE InitFields(Tail(fs), kwargs, (f.name :> r.val) @@ slots,
                            IF given THEN [seen EXCEPT ![f.name] = r.arg] ELSE seen) :
                   r \in {SetField(f.ty, f.dflt,
                                   IF given THEN kwargs[f.name] ELSE f.dflt)}})

\* cls(**kwargs)
Construct(c, kwargs) ==
    IF \/ DOMAIN kwargs \ FieldNames(c) # {}
       \/ \E i \in DOMAIN Schema(c) :
            Schema(c)[i].dflt = MISSING /\ Schema(c)[i].name \notin DOMAIN kwargs
    THEN Raise("TypeError", kwargs)
    ELSE Only({IF r.err # NoErr THEN r ELSE Ok(Obj(c, r.val), r.arg) :
               r \in {InitFields(Schema(c), kwargs, <<>>, kwargs)}})

\* TypeCheckedDescriptor.__set__ on a field of type ty whose slot (or, when
\* the slot is unset, whose default) is curr_val
SetField(ty, curr_val, new_val) ==
    IF new_val = MISSING THEN Raise("MissingValueError", new_val)
    ELSE LET hyp == is_hypod(ty) \/ is_union_of_hypod(ty)
         IN  Only({IF parsed.err # NoErr THEN parsed
                   ELSE IF hyp /\ parsed.val.k \in {"map", "str"}
                   THEN InferNewHypodVal(ty, curr_val, parsed.val, TRUE)
                   ELSE parsed :
                   parsed \in {IF new_val.k = "str"
                                    /\ ~(ty.kind = "str" \/ is_union_of_str(ty))
                                    /\ ~hyp
                               THEN Eval(new_val)
                               ELSE Ok(new_val, new_val)}})

(***************************************************************************)
(* The program of the field specification: Base, its tagged variants       *)
(* A ("a") and B ("b"), and the unrelated root Other, every one decorated; *)
(* then a holder class H with one field f, whose type and default vary.    *)
(***************************************************************************)
Field(name, ty, dflt) == [name |-> name, ty |-> ty, dflt |-> dflt]

VariantSchema(bar) ==
    <<Field("foo", Plain("any"), IntV("0")), Field("bar", Plain("int"), IntV(bar))>>

BaseId == 1
AId == 2
BId == 3
OtherId == 4
HolderId == 5

Script ==
    <<[base |-> 0, tag |-> NoTag, qualname |-> "Base", schema |-> VariantSchema("0")],
      [base |-> BaseId, tag |-> "a", qualname |-> "A", schema |-> VariantSchema("0")],
      [base |-> BaseId, tag |-> "b", qualname |-> "B", schema |-> VariantSchema("1")],
      [base |-> 0, tag |-> NoTag, qualname |-> "Other", schema |-> VariantSchema("0")]>>

RECURSIVE RunScript(_, _, _)
RunScript(script, cs, regs) ==
    IF script = <<>> THEN [cs |-> cs, regs |-> regs]
    ELSE LET d == Head(script)
             r == IF d.base = 0 THEN [regs |-> regs, err |-> NoErr]
                  ELSE InitSubclass(cs, Owner(cs, d.base), Len(cs) + 1, d.tag,
                                    d.qualname, [regs |-> regs, err |-> NoErr])
         IN  RunScript(Tail(script),
                       Append(cs, [parent |-> d.base, own |-> TRUE, schema |-> d.schema]),
                       Append(r.regs, <<>>))

Union(members, dict, mapping) == Type("union", members, dict, mapping, FALSE)

HolderTypes ==
    {Hpc(BaseId), Union(<<AId, BId>>, FALSE, FALSE), Union(<<BaseId, OtherId>>, FALSE, FALSE),
     Union(<<AId, BId>>, FALSE, TRUE), Union(<<AId, BId>>, TRUE, FALSE)}

HolderDefaults == {MISSING, Obj(AId, [foo |-> IntV("0"), bar |-> IntV("1")])}

\* what a caller passes for a field of a variant, and for f
FooArgs == {IntV("1"), StrV("'1'"), StrV("x")}

BarArgs == {IntV("1")}

TagArgs == {StrV("a"), StrV("b"), StrV("zz")}

Choices(key, vals) == {<<>>} \cup {(key :> v) : v \in vals}

VariantMaps == {f @@ b : f \in Choices("foo", FooArgs), b \in Choices("bar", BarArgs)}

InnerArgs ==
    {Map(t @@ m) : t \in Choices("_tag", TagArgs), m \in VariantMaps}
        \cup {StrV("a"), StrV("b")}
        \cup {Obj(BId, [foo |-> StrV("1"), bar |-> IntV("0")]), IntV("1")}

CallerMaps == VariantMaps \cup {("f" :> x) : x \in InnerArgs}

FieldInit ==
    /\ LET w == RunScript(Script, <<>>, <<>>)
       IN  classes = w.cs /\ subclasses = w.regs
    /\ fields = {}
    /\ obj = None
    /\ arg = Map(<<>>)
    /\ argv = <<>>
    /\ pc = "idle"
    /\ idx = 0
    /\ argv_dict = Map(<<>>)
    /\ decls = <<>>
    /\ made = None
    /\ last = [op |-> "init", err |-> NoErr, tag |-> NoTag, base |-> 0]

\* @hypod class H: f: ty = dflt
DeclareHolder(ty, dflt) ==
    /\ Len(classes) < HolderId
    /\ LET e == DescriptorInit(classes, subclasses, ty)
       IN  /\ last' = [op |-> "holder", err |-> e, tag |-> NoTag, base |-> 0]
           /\ IF e = NoErr
              THEN /\ classes' = Append(classes, [parent |-> 0, own |-> TRUE,
                                            schema |-> <<Field("f", ty, dflt)>>])
                   /\ subclasses' = Append(subclasses, <<>>)
              ELSE UNCHANGED <<classes, subclasses>>
    /\ UNCHANGED <<fields, obj, arg>>
    /\ UNCHANGED <<argvVars, makeVars>>

\* the caller builds a mapping
Bind(m) ==
    /\ Len(classes) = HolderId
    /\ arg' = Map(m)
    /\ last' = [op |-> "bind", err |-> NoErr, tag |-> NoTag, base |-> 0]
    /\ UNCHANGED <<regVars, obj>>
    /\ UNCHANGED <<argvVars, makeVars>>

\* obj = c.from_dict(arg)
FromDict(c) ==
    /\ Len(classes) = HolderId
    /\ \E r \in {Construct(c, arg.ent)} :
           /\ obj' = IF r.err = NoErr THEN r.val ELSE obj
           /\ arg' = Map(r.arg)
           /\ last' = [op |-> "from_dict", err |-> r.err, tag |-> NoTag, base |-> c]
    /\ UNCHANGED regVars
    /\ UNCHANGED <<argvVars, makeVars>>

\* obj.<name> = arg[name]
SetAttr(name) ==
    /\ obj.k = "obj"
    /\ name \in FieldNames(obj.cls) \cap DOMAIN arg.ent
    /\ \E i \in DOMAIN Schema(obj.cls) :
         /\ Schema(obj.cls)[i].name = name
         /\ \E r \in {SetField(Schema(obj.cls)[i].ty, obj.slots[name], arg.ent[name])} :
           /\ obj' = IF r.err = NoErr THEN [obj EXCEPT !.slots[name] = r.val] ELSE obj
           /\ arg' = Map([arg.ent EXCEPT ![name] = r.arg])
           /\ last' = [op |-> "set", err |-> r.err, tag |-> name, base |-> obj.cls]
    /\ UNCHANGED regVars
    /\ UNCHANGED <<argvVars, makeVars>>

\* obj = replace(obj, **arg)
ReplaceObj ==
    /\ obj.k = "obj"
    /\ \E r \in {Replace(obj, arg.ent)} :
           /\ obj' = IF r.err = NoErr THEN r.val ELSE obj
           /\ arg' = Map(r.arg)
           /\ last' = [op |-> "replace", err |-> r.err, tag |-> NoTag, base |-> obj.cls]
    /\ UNCHANGED regVars
    /\ UNCHANGED <<argvVars, makeVars>>

FieldNext ==
    \/ \E ty \in HolderTypes, dflt \in HolderDefaults : DeclareHolder(ty, dflt)
    \/ \E m \in CallerMaps : Bind(m)
    \/ \E c \in DOMAIN classes : FromDict(c)
    \/ \E name \in {"f", "foo", "bar"} : SetAttr(name)
    \/ ReplaceObj

SpecField == FieldInit /\ [][FieldNext]_vars

(***************************************************************************)
(* Field claims                                                            *)
(***************************************************************************)
HolderDeclared == Len(classes) = HolderId

HolderField == classes[HolderId].schema[1]

\* a step of the caller on an instance of H (or constructing one) that
\* passes a value for f
WritesF(op) ==
    /\ HolderDeclared
    /\ last'.op = op
    /\ last'.base = HolderId
    /\ "f" \in DOMAIN arg.ent

\* the value f holds when the write starts: the slot, or the default when
\* the instance is only being constructed
CurrentF(op) == IF op = "from_dict" THEN HolderField.dflt ELSE obj.slots["f"]

\* the tags under which class c is registered
ClassTags(c) ==
    UNION {{subclasses[r][i][1] :
                i \in {j \in DOMAIN subclasses[r] : subclasses[r][j][2] = c}} :
           r \in DOMAIN subclasses}

\* C2: a mapping written to a union field whose _tag is the tag of a member
\* of the union yields an instance of that member, built from the remaining
\* entries ({_tag: "b", foo: 1} on a union of A and B gives B with foo = 1).
C2_TagSelectsUnionMember ==
    [][\A op \in {"from_dict", "set", "replace"} : \A m \in {AId, BId} :
         (/\ WritesF(op)
          /\ HolderField.ty.kind = "union"
          /\ \E i \in DOMAIN HolderField.ty.members : HolderField.ty.members[i] = m
          /\ arg.ent["f"].k = "map"
          /\ "_tag" \in DOMAIN arg.ent["f"].ent
          /\ arg.ent["f"].ent["_tag"].v \in ClassTags(m)
          /\ \A x \in DOMAIN arg.ent["f"].ent \ {"_tag"} : arg.ent["f"].ent[x].k = "int")
         => /\ last'.err = NoErr
            /\ obj'.slots["f"].cls = m
            /\ \A x \in DOMAIN arg.ent["f"].ent \ {"_tag"} :
                 obj'.slots["f"].slots[x] = arg.ent["f"].ent[x]]_vars

\* the type a tag names for the field f
TagClass(tag) ==
    LET reg == IF is_hypod(HolderField.ty)
               THEN SubclassesOf(classes, subclasses, HolderField.ty.members[1])
               ELSE AllSubclasses(classes, subclasses, HolderField.ty.members)
    IN  IF Has(reg, tag) THEN Get(reg, tag) ELSE 0

DefaultOf(c, name) ==
    Schema(c)[CHOOSE i \in DOMAIN Schema(c) : Schema(c)[i].name = name].dflt

\* C3: f holds (or defaults to) an instance v of T.  A mapping without _tag
\* yields an instance of T whose fields not named in the mapping equal v's;
\* a mapping or bare tag whose tag names another type than T's yields that
\* type built from the remaining entries alone, nothing taken from v.
C3_MergeOrFresh ==
    [][\A op \in {"from_dict", "set", "replace"} :
         (/\ WritesF(op)
          /\ CurrentF(op).k = "obj"
          /\ arg.ent["f"].k \in {"map", "str"}
          /\ last'.err = NoErr)
         => LET v == CurrentF(op)
                w == arg.ent["f"]
                new == obj'.slots["f"]
                tagged == w.k = "str" \/ "_tag" \in DOMAIN w.ent
                tag == IF w.k = "str" THEN w.v ELSE w.ent["_tag"].v
                rest == IF w.k = "str" THEN {} ELSE DOMAIN w.ent \ {"_tag"}
            IN  /\ ~tagged =>
                     /\ new.cls = v.cls
                     /\ \A g \in FieldNames(v.cls) \ rest : new.slots[g] = v.slots[g]
                /\ (tagged /\ TagClass(tag) # v.cls) =>
                     /\ new.cls = TagClass(tag)
                     /\ \A g \in FieldNames(new.cls) \ rest :
                            new.slots[g] = DefaultOf(new.cls, g)]_vars

\* a write of a mapping without _tag to a union field that has no current
\* value
UntaggedNoCurrent(op) ==
    /\ WritesF(op)
    /\ is_union_of_hypod(HolderField.ty)
    /\ CurrentF(op) = MISSING
    /\ arg.ent["f"].k = "map"
    /\ "_tag" \notin DOMAIN arg.ent["f"].ent

RECURSIVE Valid(_)
Valid(o) ==
    \A i \in DOMAIN Schema(o.cls) :
        LET f == Schema(o.cls)[i]
        IN  /\ CheckType(o.slots[f.name], f.ty)
            /\ o.slots[f.name].k = "obj" => Valid(o.slots[f.name])

\* C5: replace keeps every field the change-set does not name, and with an
\* empty change-set returns an instance equal to the one given.
C5_ReplacePreserves ==
    [][(last'.op = "replace" /\ Valid(obj))
         => /\ last'.err = NoErr =>
                 \A g \in FieldNames(obj.cls) \ DOMAIN arg.ent :
                     obj'.slots[g] = obj.slots[g]
            /\ arg.ent = <<>> => last'.err = NoErr /\ obj' = obj]_vars

\* C7: from_dict, a field write and replace leave the caller's mapping, and
\* the mappings nested in it, with the entries they had.
C7_CallerMappingUntouched ==
    [][last'.op \in {"from_dict", "set", "replace"} => arg' = arg]_vars

\* c is a member of the HPC or union type ty, or is registered in the
\* registry of a member
Belongs(ty, c) ==
    /\ c # 0
    /\ \E i \in DOMAIN ty.members :
          \/ c = ty.members[i]
          \/ \E j \in DOMAIN SubclassesOf(classes, subclasses, ty.members[i]) :
                SubclassesOf(classes, subclasses, ty.members[i])[j][2] = c

\* the class infer_new_hypod_cls returns for the mapping or string new_val
\* written over curr_val
Resolved(ty, curr_val, new_val) ==
    InferNewHypodCls(ty, curr_val,
        IF new_val.k = "str" THEN ("_tag" :> new_val) ELSE new_val.ent)

\* C12: whatever value f holds when a mapping or a string is written to it,
\* a class that infer_new_hypod_cls returns for the write is an HPC of the
\* declared type of f: a member of it, or a class in a member's registry.
C12_ResolvedTypeBelongs ==
    [][\A op \in {"from_dict", "set", "replace"} :
         (/\ WritesF(op)
          /\ is_hypod(HolderField.ty) \/ is_union_of_hypod(HolderField.ty)
          /\ arg.ent["f"].k \in {"map", "str"}
          /\ Resolved(HolderField.ty, CurrentF(op), arg.ent["f"]).err = NoErr)
            => Belongs(HolderField.ty,
                       Resolved(HolderField.ty, CurrentF(op), arg.ent["f"]).cls)]_vars

(***************************************************************************)
(* Fields that accept str: the holder class H declared with f: str, or     *)
(* with a union that names str, and written with strings.                  *)
(***************************************************************************)
StrHolderTypes ==
    {Plain("str"),
     Type("union", <<>>, FALSE, TRUE, TRUE),
     Type("union", <<BaseId>>, FALSE, FALSE, TRUE),
     Type("union", <<AId, BId>>, FALSE, FALSE, TRUE)}

StrHolderDefaults == {MISSING, StrV("x")}

\* the text of a number, of a quoted str, a registered tag, an unknown name
StrArgs == {StrV("1"), StrV("'1'"), StrV("a"), StrV("zz")}

StrCallerMaps == {<<>>} \cup {("f" :> x) : x \in StrArgs \cup {IntV("1")}}

StrNext ==
    \/ \E ty \in StrHolderTypes, dflt \in StrHolderDefaults : DeclareHolder(ty, dflt)
    \/ \E m \in StrCallerMaps : Bind(m)
    \/ \E c \in DOMAIN classes : FromDict(c)
    \/ \E name \in {"f", "foo", "bar"} : SetAttr(name)
    \/ ReplaceObj

SpecStr == FieldInit /\ [][StrNext]_vars

AcceptsStr(ty) == ty.kind = "str" \/ is_union_of_str(ty)

\* C11: a string written to a field whose declared type is str, or a union
\* that names str (HPC members or not), is stored as that very string: the
\* write succeeds and the field holds the string unchanged.
C11_StrStoredUnchanged ==
    [][\A op \in {"from_dict", "set", "replace"} :
         (WritesF(op) /\ AcceptsStr(HolderField.ty) /\ arg.ent["f"].k = "str")
            => /\ last'.err = NoErr
               /\ obj'.k = "obj"
               /\ obj'.slots["f"] = arg.ent["f"]]_vars

(***************************************************************************)
(* parse_argv.  A token is a sequence of atoms: "." and "=" are the two    *)
(* separator characters, every other atom is a run of characters that      *)
(* holds neither ("_tag" is the four characters of the reserved key).      *)
(***************************************************************************)
AtomLen(x) == IF x = "_tag" THEN 4 ELSE 1

RECURSIVE StrLen(_)
StrLen(a) == IF a = <<>> THEN 0 ELSE AtomLen(Head(a)) + StrLen(Tail(a))

Contains(a, ch) == \E i \in DOMAIN a : a[i] = ch

\* the atoms before the first ch
Before(a, ch) == SubSeq(a, 1, (CHOOSE i \in DOMAIN a :
                                 a[i] = ch /\ \A j \in 1..(i - 1) : a[j] # ch) - 1)

\* the atoms after the first ch
After(a, ch) == SubSeq(a, Len(Before(a, ch)) + 2, Len(a))

\* a.index(ch), in characters
Index(a, ch) == StrLen(Before(a, ch))

\* a.split(ch)
RECURSIVE Split(_, _)
Split(a, ch) ==
    IF ~Contains(a, ch) THEN <<a>>
    ELSE <<Before(a, ch)>> \o Split(After(a, ch), ch)

\* a.split(ch, 1)
SplitOnce(a, ch) ==
    IF ~Contains(a, ch) THEN <<a>> ELSE <<Before(a, ch), After(a, ch)>>

\* check_argv_format for one token
FormatOk(a) ==
    /\ Contains(a, "=")
    /\ 0 < Index(a, "=")
    /\ Index(a, "=") < StrLen(a) - 1

\* check_argv_format
check_argv_format(av) == \A i \in DOMAIN av : FormatOk(av[i])

TagKey == <<"_tag">>

\* as MakeDict, but a bare value replaces whatever the key held
RECURSIVE MakeDictOverwrite(_, _, _)
MakeDictOverwrite(key, val, base_dict) ==
    LET ks == SplitOnce(key, ".")
    IN  IF Len(ks) = 2
        THEN LET k == ks[1]
                 sub == IF k \in DOMAIN base_dict
                        THEN IF base_dict[k].k # "map" THEN (TagKey :> base_dict[k])
                             ELSE base_dict[k].ent
                        ELSE <<>>
             IN  (k :> Map(MakeDictOverwrite(ks[2], val, sub))) @@ base_dict
        ELSE (key :> StrV(val)) @@ base_dict

\* _make_dict: base_dict after the call
RECURSIVE MakeDict(_, _, _)
MakeDict(key, val, base_dict) ==
    LET ks == SplitOnce(key, ".")
    IN  IF Len(ks) = 2
        THEN LET k == ks[1]
                 sub == IF k \in DOMAIN base_dict
                        THEN IF base_dict[k].k # "map" THEN (TagKey :> base_dict[k])
                             ELSE base_dict[k].ent
                        ELSE <<>>
             IN  (k :> Map(MakeDict(ks[2], val, sub))) @@ base_dict
        ELSE IF key \in DOMAIN base_dict /\ base_dict[key].k = "map"
        THEN (key :> Map((TagKey :> StrV(val)) @@ base_dict[key].ent)) @@ base_dict
        ELSE (key :> StrV(val)) @@ base_dict

\* the tokens a caller may pass
GoodKeys ==
    {<<"d">>, <<"d", ".", "b">>, <<"d", ".", "_tag">>, <<"d", ".", "b", ".", "c">>}

OddKeys == {<<".", "d">>, <<"d", ".">>, <<"d", ".", ".", "b">>}

ArgValues == {<<"f">>, <<"g">>}

Tokens ==
    {k \o <<"=">> \o v : k \in GoodKeys \cup OddKeys, v \in ArgValues}
        \cup {<<"d">>, <<"=", "f">>, <<"d", "=">>, <<"d", "=", "f", "=", "g">>}

TokenLists == UNION {[1..n -> Tokens] : n \in 0..MaxArgs}

ArgvInit ==
    /\ classes = <<>>
    /\ subclasses = <<>>
    /\ fields = {}
    /\ obj = None
    /\ arg = None
    /\ argv \in TokenLists
    /\ pc = "check"
    /\ idx = 1
    /\ argv_dict = Map(<<>>)
    /\ decls = <<>>
    /\ made = None
    /\ last = [op |-> "init", err |-> NoErr, tag |-> NoTag, base |-> 0]

\* check_argv_format(argv)
CheckFormat ==
    /\ pc = "check"
    /\ IF check_argv_format(argv)
       THEN pc' = "parse" /\ UNCHANGED last
       ELSE /\ pc' = "error"
            /\ last' = [op |-> "parse_argv", err |-> "ArgvFormatError",
                        tag |-> NoTag, base |-> 0]
    /\ UNCHANGED <<argv, idx, argv_dict, regVars, fldVars, makeVars>>

\* one turn of the loop: key, val = a.split("="); _make_dict(key, val, argv_dict)
ParseToken ==
    /\ pc = "parse"
    /\ idx <= Len(argv)
    /\ LET parts == Split(argv[idx], "=")
       IN  IF Len(parts) # 2
           THEN /\ pc' = "error"
                /\ last' = [op |-> "parse_argv", err |-> "ValueError",
                            tag |-> NoTag, base |-> 0]
                /\ UNCHANGED <<idx, argv_dict>>
           ELSE /\ argv_dict' = Map(MakeDict(parts[1], parts[2], argv_dict.ent))
                /\ idx' = idx + 1
                /\ UNCHANGED <<pc, last>>
    /\ UNCHANGED <<argv, regVars, fldVars, makeVars>>

\* return argv_dict
ReturnDict ==
    /\ pc = "parse"
    /\ idx > Len(argv)
    /\ pc' = "done"
    /\ last' = [op |-> "parse_argv", err |-> NoErr, tag |-> NoTag, base |-> 0]
    /\ UNCHANGED <<argv, idx, argv_dict, regVars, fldVars, makeVars>>

ArgvNext == CheckFormat \/ ParseToken \/ ReturnDict

SpecArgv == ArgvInit /\ [][ArgvNext]_vars

(***************************************************************************)
(* Parser claims                                                           *)
(***************************************************************************)
TokD == <<"d", "=", "f">>

TokDB == <<"d", ".", "b", "=", "g">>

Refined == (<<"d">> :> Map((TagKey :> StrV(<<"f">>)) @@ (<<"b">> :> StrV(<<"g">>))))

\* the token the loop is at is parsed by this step
Parses == pc = "parse" /\ idx <= Len(argv) /\ idx' = idx + 1

KeyOf(a) == Split(a, "=")[1]

\* along the dotted key, a prefix key that held a bare value holds, after
\* the step, a mapping with that value under _tag; with exceptTag, unless
\* the segment that follows the prefix key is _tag itself
RECURSIVE KeptUnderTag(_, _, _, _)
KeptUnderTag(key, before, after, exceptTag) ==
    LET ks == SplitOnce(key, ".")
    IN  IF Len(ks) = 1 \/ ks[1] \notin DOMAIN before THEN TRUE
        ELSE IF before[ks[1]].k = "str"
        THEN (exceptTag /\ SplitOnce(ks[2], ".")[1] = TagKey)
                \/ /\ ks[1] \in DOMAIN after
                   /\ after[ks[1]].k = "map"
                   /\ TagKey \in DOMAIN after[ks[1]].ent
                   /\ after[ks[1]].ent[TagKey] = before[ks[1]]
        ELSE /\ ks[1] \in DOMAIN after
             /\ after[ks[1]].k = "map"
             /\ KeptUnderTag(ks[2], before[ks[1]].ent, after[ks[1]].ent, exceptTag)

\* a bare value assigned to a key that holds a mapping keeps every entry of
\* the mapping but _tag, which it sets
SubEntriesKept(key, val, before, after) ==
    (~Contains(key, ".") /\ key \in DOMAIN before /\ before[key].k = "map")
        => /\ after[key].k = "map"
           /\ \A x \in DOMAIN before[key].ent \ {TagKey} :
                x \in DOMAIN after[key].ent /\ after[key].ent[x] = before[key].ent[x]
           /\ after[key].ent[TagKey] = StrV(val)

Combines(exceptTag) ==
    /\ (pc' = "done" /\ argv \in {<<TokD, TokDB>>, <<TokDB, TokD>>})
            => argv_dict'.ent = Refined
    /\ Parses =>
          LET parts == Split(argv[idx], "=")
          IN  /\ SubEntriesKept(parts[1], parts[2], argv_dict.ent, argv_dict'.ent)
              /\ KeptUnderTag(parts[1], argv_dict.ent, argv_dict'.ent, exceptTag)

\* C8 as stated: a bare assignment and dotted assignments on one key combine
\* in either order; a bare value never discards the sub-entries of its key
\* and a dotted assignment never discards the bare value of a prefix key,
\* which is kept under _tag.
C8_BareAndDottedCombine == [][Combines(FALSE)]_vars

\* C8: as stated, except that a dotted assignment whose segment after the
\* prefix key is _tag itself replaces the bare value the prefix key held.
C8_CombineUnlessTagSegment == [][Combines(TRUE)]_vars

\* the dotted token came first and the bare value joined its mapping
C8_Witness ==
    /\ pc = "done"
    /\ argv = <<TokDB, TokD>>
    /\ argv_dict.ent = Refined

\* key(.key)*=value: keys that are not empty, and a value that is not empty
Grammatical(a) ==
    /\ Contains(a, "=")
    /\ After(a, "=") # <<>>
    /\ LET keys == Split(Before(a, "="), ".")
       IN  \A i \in DOMAIN keys : keys[i] # <<>>

\* C9: parse_argv returns a mapping only for token lists whose every token
\* matches key(.key)*=value; a list holding any other token fails, wherever
\* the token stands.
C9_MalformedRejected ==
    (\E i \in DOMAIN argv : ~Grammatical(argv[i])) => pc # "done"

(***************************************************************************)
(* make().  decls is the module's class statements; a class is named by    *)
(* its position, and its qualname is the path of names from the module     *)
(* down to it.  ctor tells whether the class can be constructed from one   *)
(* positional argument.                                                    *)
(***************************************************************************)
RECURSIVE IsHypodDecl(_, _)
IsHypodDecl(ds, c) ==
    ds[c].own \/ (ds[c].base # 0 /\ IsHypodDecl(ds, ds[c].base))

\* the class whose decorator defined the make() an instance of c runs
RECURSIVE MakerOf(_, _)
MakerOf(ds, c) == IF ds[c].own THEN c ELSE MakerOf(ds, ds[c].base)

\* getattr(module, name): the module binds the names of its own class
\* statements, never a dotted path
ModuleGetattr(ds, name) ==
    IF \E t \in DOMAIN ds : ds[t].qualname = name /\ Len(name) = 1
    THEN [err |-> NoErr, cls |-> CHOOSE t \in DOMAIN ds : ds[t].qualname = name]
    ELSE [err |-> "AttributeError", cls |-> 0]

\* _get_target_cls; cls 0 is None
RECURSIVE GetTargetCls(_, _)
GetTargetCls(ds, cls) ==
    LET q == ds[cls].qualname
    IN  IF Len(q) = 1
        THEN IF ds[cls].base # 0
             THEN IF ~IsHypodDecl(ds, ds[cls].base)
                  THEN [err |-> "NonHypodParentError", cls |-> 0]
                  ELSE GetTargetCls(ds, ds[cls].base)
             ELSE [err |-> NoErr, cls |-> 0]
        ELSE ModuleGetattr(ds, SubSeq(q, 1, Len(q) - 1))

\* the classes whose body encloses the body of c, and c
Enclosing(ds, c) ==
    {t \in DOMAIN ds :
        /\ Len(ds[t].qualname) <= Len(ds[c].qualname)
        /\ ds[t].qualname = SubSeq(ds[c].qualname, 1, Len(ds[t].qualname))}

MakeInit ==
    /\ classes = <<>>
    /\ subclasses = <<>>
    /\ fields = {}
    /\ obj = None
    /\ arg = None
    /\ argv = <<>>
    /\ pc = "idle"
    /\ idx = 0
    /\ argv_dict = Map(<<>>)
    /\ decls = <<>>
    /\ made = None
    /\ last = [op |-> "init", err |-> NoErr, tag |-> NoTag, base |-> 0]

\* class <name>(<base>): ... in the body of outer (0: the module), under
\* @hypod when own
DeclareClass(outer, own, base, ctor) ==
    /\ Len(decls) < MaxClasses
    /\ IF base = 0 \/ outer = 0 THEN TRUE ELSE base \notin Enclosing(decls, outer)
    /\ decls' = Append(decls,
          [qualname |-> (IF outer = 0 THEN <<>> ELSE decls[outer].qualname)
                            \o <<Len(decls) + 1>>,
           own |-> own, base |-> base, ctor |-> ctor])
    /\ UNCHANGED <<made, last, regVars, fldVars, argvVars>>

\* c().make()
Make(c) ==
    /\ IsHypodDecl(decls, c)
    /\ \E t \in {GetTargetCls(decls, MakerOf(decls, c))} :
          made' = IF t.err # NoErr THEN [of |-> c, err |-> t.err, cls |-> 0, arg |-> 0]
                  ELSE IF t.cls = 0
                  THEN [of |-> c, err |-> "NoBuildTargetError", cls |-> 0, arg |-> 0]
                  ELSE IF ~decls[t.cls].ctor
                  THEN [of |-> c, err |-> "TypeError", cls |-> 0, arg |-> 0]
                  ELSE [of |-> c, err |-> NoErr, cls |-> t.cls, arg |-> c]
    /\ made' # made
    /\ UNCHANGED <<decls, last, regVars, fldVars, argvVars>>

MakeNext ==
    \/ \E outer \in 0..Len(decls), own \in BOOLEAN, base \in 0..Len(decls),
            ctor \in BOOLEAN : DeclareClass(outer, own, base, ctor)
    \/ \E c \in DOMAIN decls : Make(c)

SpecMake == MakeInit /\ [][MakeNext]_vars

(***************************************************************************)
(* make() claims                                                           *)
(***************************************************************************)
\* c is an HPC in the body of an HPC in the body of a plain class of the
\* module
TwoDeep(c) ==
    /\ Len(decls[c].qualname) = 3
    /\ \A t \in Enclosing(decls, c) :
          IsHypodDecl(decls, t) <=> Len(decls[t].qualname) > 1

Outermost(c) ==
    CHOOSE t \in Enclosing(decls, c) : Len(decls[t].qualname) = 1

RECURSIVE NoEnclosing(_)
NoEnclosing(c) ==
    /\ Len(decls[c].qualname) = 1
    /\ IsHypodDecl(decls, c)
    /\ decls[c].base # 0 => NoEnclosing(decls[c].base)

\* C10: make() on an HPC two levels deep in a plain class returns that plain
\* class constructed from the instance; make() on an HPC that, like every
\* HPC it inherits from, has no enclosing class fails with
\* NoBuildTargetError.
C10_MakeWalksUpNesting ==
    made # None =>
        /\ (TwoDeep(made.of) /\ decls[Outermost(made.of)].ctor)
                => made.err = NoErr /\ made.cls = Outermost(made.of)
                        /\ made.arg = made.of
        /\ NoEnclosing(made.of) => made.err = "NoBuildTargetError"

====
